---- MODULE Spec2Model ----
(***************************************************************************)
(* Model of mitm/ua_sniffer.py, the mitmproxy addon that relays            *)
(* User-Agent signals: bypass classification, the request/response hooks,  *)
(* the worker thread handle(), the dedup deque UA_QUEUE, the Socket.IO     *)
(* client SockClient and the fallback logger _safe_log.                    *)
(*                                                                         *)
(* Strings the code inspects character by character (host names, the       *)
(* Server header) are sequences of one-character strings.  Strings the     *)
(* code only compares or copies (the User-Agent, the client address) are   *)
(* TLA+ strings.  A URL is a record [scheme, path]: the code only looks at *)
(* its "https://" prefix and otherwise copies it.                          *)
(***************************************************************************)
EXTENDS Integers, Sequences, FiniteSets, TLC

(***************************************************************************)
(* Bounds of the model.                                                    *)
(***************************************************************************)
\* hook invocations, request() or response(), in the concurrent specification Spec
MaxHooks == 2
\* request() invocations in the sequential specification SeqSpec
SeqMaxRequests == 102
\* suppressed repeats of the tracked exchange in SeqSpec
SeqMaxRepeats == 2

(***************************************************************************)
(* Program constants.                                                      *)
(***************************************************************************)
\* UA_QUEUE = deque(maxlen=100)
UA_QUEUE_MAXLEN == 100
\* for n in range(3) in SockClient._connect
CONNECT_TRIES == 3
\* socketio.Client(reconnection_attempts=5)
RECONNECTION_ATTEMPTS == 5

(***************************************************************************)
(* Character strings.                                                      *)
(***************************************************************************)
UpperChars == <<"A","B","C","D","E","F","G","H","I","J","K","L","M",
                "N","O","P","Q","R","S","T","U","V","W","X","Y","Z">>
LowerChars == <<"a","b","c","d","e","f","g","h","i","j","k","l","m",
                "n","o","p","q","r","s","t","u","v","w","x","y","z">>

\* str.lower() on one character
LowerChar(c) ==
    IF \E i \in 1..Len(UpperChars) : UpperChars[i] = c
    THEN LowerChars[CHOOSE i \in 1..Len(UpperChars) : UpperChars[i] = c]
    ELSE c

\* str.lower()
Lower(s) == [i \in 1..Len(s) |-> LowerChar(s[i])]

\* str.rstrip("."): every trailing dot is removed
RECURSIVE RStripDot(_)
RStripDot(s) ==
    IF Len(s) > 0 /\ s[Len(s)] = "."
    THEN RStripDot(SubSeq(s, 1, Len(s) - 1))
    ELSE s

\* str.endswith(t)
EndsWith(s, t) ==
    /\ Len(t) <= Len(s)
    /\ SubSeq(s, Len(s) - Len(t) + 1, Len(s)) = t

\* t in s  (substring test)
Contains(s, t) ==
    \E i \in 0..(Len(s) - Len(t)) : SubSeq(s, i + 1, i + Len(t)) = t

s_google_com   == <<"g","o","o","g","l","e",".","c","o","m">>
s_cloudflare   == <<"c","l","o","u","d","f","l","a","r","e",".","c","o","m">>
s_mitm_it      == <<"m","i","t","m",".","i","t">>
s_spotify_com  == <<"s","p","o","t","i","f","y",".","c","o","m">>
s_spclient_wg  == <<"s","p","c","l","i","e","n","t",".","w","g",".">> \o s_spotify_com
s_guc3         == <<"g","u","c","3","-","s","p","c","l","i","e","n","t",".">> \o s_spotify_com
s_localhost    == <<"l","o","c","a","l","h","o","s","t">>
s_127_0_0_1    == <<"1","2","7",".","0",".","0",".","1">>
s_ipv6_loop    == <<":",":","1">>
s_example_com  == <<"e","x","a","m","p","l","e",".","c","o","m">>
s_evil_example == <<"e","v","i","l",".">> \o s_example_com
s_www_google   == <<"w","w","w",".">> \o s_google_com

BYPASS_SUFFIXES ==
    {s_google_com, s_cloudflare, s_mitm_it, s_spotify_com, s_spclient_wg, s_guc3}

BYPASS_HOSTS == {s_localhost, s_127_0_0_1, s_ipv6_loop}

(***************************************************************************)
(* host_in_bypass(host).  A missing host (None) is the empty string.       *)
(***************************************************************************)
\* s.lower() for the suffixes of the loop of line 75
SuffixLower == [s \in BYPASS_SUFFIXES |-> Lower(s)]

host_in_bypass_no_boundary(host) ==
    LET h == RStripDot(Lower(host))
    IN  \/ h \in BYPASS_HOSTS
        \/ \E s \in BYPASS_SUFFIXES : h = SuffixLower[s] \/ EndsWith(h, SuffixLower[s])

host_in_bypass_exact_only(host) ==
    RStripDot(Lower(host)) \in BYPASS_HOSTS

host_in_bypass(host) ==
    LET h == RStripDot(Lower(host))
    IN  \/ h \in BYPASS_HOSTS
        \/ \E s \in BYPASS_SUFFIXES :
              h = SuffixLower[s] \/ EndsWith(h, <<".">> \o SuffixLower[s])


(***************************************************************************)
(* State.                                                                  *)
(***************************************************************************)
VARIABLES
    connected,        \* SockClient.connected
    sioState,         \* the socketio.Client transport: "down", "up", "reconnecting"
    reconnTries,      \* failed reconnection attempts of the transport since the last drop
    reachable,        \* whether the collector accepts connections now (an input of
                      \* FairSpec; in Spec each attempt draws its own answer)
    connectPc,        \* position of SockClient._connect: "loop", "sleep", and once it
                      \* has returned "returned" (line 236 or 245) or "exhausted"
    n,                \* loop variable n of SockClient._connect (0 outside the loop)
    lock,             \* SockClient.lock: 0 when free, else the worker holding it
    UA_QUEUE,         \* the dedup deque
    worker,           \* the handle() threads, by worker id
    nreq,             \* request() invocations so far
    nresp,            \* response() invocations so far
    logCalls,         \* history: the number of calls of _safe_log
    logDir,           \* the record files written into LOG_DIR
    stderrLines,      \* EMERG-LOG-FAIL lines written to sys.stderr
    hookResult,       \* the last hook invocation: its flow's host and response, and how it ended
    inserted,         \* history: every fingerprint appended to UA_QUEUE, in order
    emitted,          \* history: the events sio.emit accepted, in order, each named
                      \* by the fingerprint of its ua, url and src_ip
    host,             \* the host last classified (BypassSpec)
    bypassed          \* the result of host_in_bypass for it (BypassSpec)

vars == <<connected, sioState, reconnTries, reachable, connectPc, n, lock, UA_QUEUE, worker, nreq, nresp, logCalls,
          logDir, stderrLines, hookResult, inserted, emitted, host, bypassed>>

connVars   == <<connected, sioState, reconnTries, reachable>>
loopVars   == <<connectPc, n>>
logVars    == <<logCalls, logDir, stderrLines>>
bypassVars == <<host, bypassed>>

Range(s) == {s[i] : i \in 1..Len(s)}

\* flow.response: None, or a response with its status code and Server header
NoResponse == [present |-> FALSE, status |-> 0, server |-> <<>>]

Resp(status, server) == [present |-> TRUE, status |-> status, server |-> server]

(***************************************************************************)
(* URLs and flows.                                                         *)
(***************************************************************************)
Url(scheme, path) == [scheme |-> scheme, path |-> path]

\* url.startswith("https://")
IsHttps(url) == url.scheme = "https"

NoFlowUrl == Url("none", 0)

\* (flow.request.headers.get("User-Agent", "") or "NO_UA")[:MAX_UA_LENGTH];
\* the model's User-Agent strings are shorter than MAX_UA_LENGTH
UaOf(header) == IF header = "" THEN "NO_UA" ELSE header

\* client_conn.peername[0] if client_conn else "unknown"
ClientIpOf(flow) == IF flow.conn = "absent" THEN "unknown" ELSE flow.ip

\* the extraction of lines 274-296 raises (client_conn.peername is None)
ExtractionRaises(flow) == flow.conn = "no_peername"

\* hashlib.sha256(f"{ua}:{url}:{client_ip}".encode()).hexdigest(); the digest
\* is taken to be collision-free, so it is named by the text it digests
Fingerprint(ua, url, ip) == <<ua, ":", url, ":", ip>>

MkFlow(h, ua, url, conn, ip) ==
    [host |-> h, ua |-> ua, url |-> url, conn |-> conn, ip |-> ip]

\* the flows the proxy hands to request() in Spec
MainFlows ==
    { MkFlow(s_evil_example, "curl/8.0", Url("https", 0), "present", "10.0.0.1"),
      MkFlow(s_evil_example, "", Url("http", 1), "absent", ""),
      MkFlow(s_evil_example, "curl/8.0", Url("https", 0), "no_peername", ""),
      MkFlow(s_www_google, "curl/8.0", Url("https", 0), "no_peername", "") }

(***************************************************************************)
(* _analyze_cert_behavior(ua, url).  first is the outcome of the verifying *)
(* HEAD request, second that of the request with verify=False.             *)
(***************************************************************************)
SslOutcomes ==
    {"ssl_expired", "ssl_self_signed", "ssl_hostname", "ssl_verify_other", "ssl_other"}

\* "other_exception" is an exception that is none of SSLError, ConnectTimeout
\* and ConnectionError, for instance a ReadTimeout
FirstOutcomes ==
    {"200", "non200", "connect_timeout", "connection_error", "other_exception"}
        \cup SslOutcomes

SecondOutcomes == {"200", "non200", "exception"}

Cert(b, r) == [behavior |-> b, risk |-> r]

\* CERT_BEHAVIOR_SCORES
CERT_BEHAVIOR_SCORES(b) ==
    CASE b = "validates_certs"        -> 0
      [] b = "ignores_certs"          -> 30
      [] b = "connection_failed"      -> 15
      [] b = "cert_expired"           -> 20
      [] b = "cert_self_signed"       -> 25
      [] b = "cert_hostname_mismatch" -> 35

\* the classification of an SSLError by its text (lines 123-134)
SslBehavior(first) ==
    CASE first = "ssl_expired"      -> "cert_expired"
      [] first = "ssl_self_signed"  -> "cert_self_signed"
      [] first = "ssl_hostname"     -> "cert_hostname_mismatch"
      [] first = "ssl_verify_other" -> "cert_validation_failed"
      [] OTHER                      -> "unknown"

\* the HEAD requests one call makes: none for a URL that is not https, the
\* verifying one (line 111), and the one with verify=False (line 138) inside
\* the handler of SSLError only
HeadRequests(url, first) ==
    IF ~IsHttps(url) THEN 0
    ELSE IF first \in SslOutcomes THEN 2 ELSE 1

\* an analysis in which a 200 with verify=False keeps the cause found first
_analyze_cert_behavior_keeps_cause(url, first, second) ==
    IF ~IsHttps(url) THEN Cert("non_https", 0)
    ELSE CASE first = "200" -> Cert("validates_certs", CERT_BEHAVIOR_SCORES("validates_certs"))
           [] first = "non200" -> Cert("unknown", 0)
           [] first \in SslOutcomes ->
                CASE second = "200" /\ SslBehavior(first) = "unknown" ->
                        Cert("ignores_certs", CERT_BEHAVIOR_SCORES("ignores_certs"))
                  [] second = "200" /\ SslBehavior(first) # "unknown" ->
                        Cert(SslBehavior(first), CERT_BEHAVIOR_SCORES("ignores_certs"))
                  [] second = "non200" -> Cert(SslBehavior(first), 0)
                  [] OTHER ->
                        Cert("connection_failed", CERT_BEHAVIOR_SCORES("connection_failed"))
           [] first = "connect_timeout" -> Cert("connection_timeout", 5)
           [] first = "connection_error" ->
                Cert("connection_failed", CERT_BEHAVIOR_SCORES("connection_failed"))
           [] OTHER -> Cert("unknown_error_ReadTimeout", 10)

_analyze_cert_behavior(url, first, second) ==
    IF ~IsHttps(url) THEN Cert("non_https", 0)
    ELSE CASE first = "200" -> Cert("validates_certs", CERT_BEHAVIOR_SCORES("validates_certs"))
           [] first = "non200" -> Cert("unknown", 0)
           [] first \in SslOutcomes ->
                CASE second = "200" ->
                        Cert("ignores_certs", CERT_BEHAVIOR_SCORES("ignores_certs"))
                  [] second = "non200" -> Cert(SslBehavior(first), 0)
                  [] OTHER ->
                        Cert("connection_failed", CERT_BEHAVIOR_SCORES("connection_failed"))
           [] first = "connect_timeout" -> Cert("connection_timeout", 5)
           [] first = "connection_error" ->
                Cert("connection_failed", CERT_BEHAVIOR_SCORES("connection_failed"))
           [] OTHER -> Cert("unknown_error_ReadTimeout", 10)

\* the probe outcomes the environment produces in Spec: the reference
\* endpoint verifies cleanly
MainProbes == {<<"200", "200">>}

(***************************************************************************)
(* _safe_log(payload).  writeOk says whether the write into LOG_DIR works. *)
(***************************************************************************)
\* whether the failure of the write leaves _safe_log as an exception: the
\* except clause of line 65 catches it
SafeLogEscapes_uncaught(writeOk) == ~writeOk

SafeLogEscapes(writeOk) == FALSE

\* the lines of the emergency file: no statement of the program opens or
\* writes a file outside LOG_DIR, the except clause of line 65 writes to
\* stderr only
emergencyLog == <<>>

_safe_log(payload, writeOk) ==
    /\ logCalls' = logCalls + 1
    /\ IF writeOk
       THEN /\ logDir' = logDir \cup {payload}
            /\ stderrLines' = stderrLines
       ELSE /\ logDir' = logDir
            /\ stderrLines' = IF SafeLogEscapes(writeOk) THEN stderrLines
                                                         ELSE stderrLines + 1

\* a record file: its type, the hook invocation it belongs to (which stands
\* for the ua and url fields and makes the file name unique), and the
\* cert_behavior field
Payload(type, req, cert) == [type |-> type, req |-> req, cert |-> cert]


(***************************************************************************)
(* The dedup deque.                                                        *)
(***************************************************************************)
\* h not in UA_QUEUE
NotInQueue_always(h, q) == TRUE

NotInQueue(h, q) == h \notin Range(q)

\* deque(maxlen=UA_QUEUE_MAXLEN).append(h): a full deque drops its oldest item
DequeAppend_drop_newest(q, h) ==
    IF Len(q) >= UA_QUEUE_MAXLEN THEN q ELSE Append(q, h)

DequeAppend(q, h) ==
    IF Len(q) >= UA_QUEUE_MAXLEN THEN Append(Tail(q), h) ELSE Append(q, h)

(***************************************************************************)
(* Worker threads.                                                         *)
(***************************************************************************)
Workers == 1..MaxHooks

\* id is the number of the request() invocation that started the thread;
\* ua, url and ip are the variables handle() closes over; the rest is
\* history: posts counts the thread's requests.post calls, logs its
\* _safe_log calls, post and emit tell how its relay and its emit ended,
\* probe is what the reference endpoint answered to its HEAD requests, heads
\* counts these requests, cert is what _analyze_cert_behavior returned
NoProbe == <<"none", "none">>

NoCert == Cert("none", 0)

IdleWorker ==
    [pc |-> "idle", id |-> 0, ua |-> "", url |-> NoFlowUrl, ip |-> "",
     posts |-> 0, logs |-> 0, post |-> "none", emit |-> "none",
     probe |-> NoProbe, heads |-> 0, cert |-> NoCert]

\* the fingerprint worker w computes at line 303
FpOf(w) == Fingerprint(worker[w].ua, worker[w].url, worker[w].ip)

(***************************************************************************)
(* Initial state: the module is being imported, SockClient.__init__ has    *)
(* bound the event handlers and is about to run _connect.                  *)
(***************************************************************************)
Init ==
    /\ connected = FALSE
    /\ sioState = "down"
    /\ reconnTries = 0
    /\ reachable = FALSE
    /\ connectPc = "loop"
    /\ n = 0
    /\ lock = 0
    /\ UA_QUEUE = <<>>
    /\ worker = [w \in Workers |-> IdleWorker]
    /\ nreq = 0
    /\ nresp = 0
    /\ logCalls = 0
    /\ logDir = {}
    /\ stderrLines = 0
    /\ hookResult = [host |-> <<>>, outcome |-> "returned", resp |-> NoResponse]
    /\ inserted = <<>>
    /\ emitted = <<>>
    /\ host = <<>>
    /\ bypassed = FALSE

(***************************************************************************)
(* SockClient._connect and the socketio events.                            *)
(***************************************************************************)
\* the body of the for loop: the connected test, then sio.connect, which
\* succeeds (ok) or raises; when the connection is made the library runs the
\* connect handler (line 225) before sio.connect returns
\* range(CONNECT_TRIES) is exhausted
ConnectLoopEnds_one_more(k) == k > CONNECT_TRIES

ConnectLoopEnds(k) == k >= CONNECT_TRIES

ConnectAttempt(ok) ==
    /\ connectPc = "loop"
    /\ ~ConnectLoopEnds(n)
    /\ ~connected
    /\ IF ok
       THEN /\ sioState' = "up"
            /\ connected' = TRUE
            /\ connectPc' = "returned"
            /\ n' = 0
       ELSE /\ connectPc' = "sleep"
            /\ UNCHANGED <<sioState, connected, n>>
    /\ UNCHANGED <<reconnTries, reachable, lock, UA_QUEUE, worker, nreq, nresp,
                   logVars, hookResult, inserted, emitted, bypassVars>>

\* except: time.sleep(2 ** n), then the next n
ConnectSleep ==
    /\ connectPc = "sleep"
    /\ n' = n + 1
    /\ connectPc' = "loop"
    /\ UNCHANGED <<connVars, lock, UA_QUEUE, worker, nreq, nresp,
                   logVars, hookResult, inserted, emitted, bypassVars>>

\* the client is found connected (line 236), or the loop is exhausted:
\* _connect returns
ConnectReturn ==
    /\ connectPc = "loop"
    /\ ConnectLoopEnds(n) \/ connected
    /\ connectPc' = IF ConnectLoopEnds(n) THEN "exhausted" ELSE "returned"
    /\ n' = 0
    /\ UNCHANGED <<connVars, lock, UA_QUEUE, worker, nreq, nresp,
                   logVars, hookResult, inserted, emitted, bypassVars>>

\* SockClient() has returned: the module is imported and the hooks may run
Loaded == connectPc \in {"returned", "exhausted"}

\* the collector becomes reachable or unreachable
ReachableChange ==
    /\ reachable' = ~reachable
    /\ UNCHANGED <<connected, sioState, reconnTries, loopVars, lock, UA_QUEUE, worker,
                   nreq, nresp, logVars, hookResult, inserted, emitted, bypassVars>>

\* the transport drops: the disconnect handler (line 230) runs, and the
\* library, built with reconnection=True, starts to reconnect
DisconnectEvent ==
    /\ sioState = "up"
    /\ connected' = FALSE
    /\ sioState' = "reconnecting"
    /\ reconnTries' = 0
    /\ UNCHANGED <<reachable, loopVars, lock, UA_QUEUE, worker, nreq, nresp,
                   logVars, hookResult, inserted, emitted, bypassVars>>

\* one reconnection attempt of the library, which succeeds (ok) or fails;
\* after RECONNECTION_ATTEMPTS failures it gives up; on success the connect
\* handler (line 225) runs
LibraryReconnect(ok) ==
    /\ sioState = "reconnecting"
    /\ IF ok
       THEN /\ sioState' = "up"
            /\ connected' = TRUE
            /\ reconnTries' = 0
       ELSE /\ IF reconnTries + 1 >= RECONNECTION_ATTEMPTS
               THEN sioState' = "down" /\ reconnTries' = 0
               ELSE sioState' = "reconnecting" /\ reconnTries' = reconnTries + 1
            /\ UNCHANGED connected
    /\ UNCHANGED <<reachable, loopVars, lock, UA_QUEUE, worker, nreq, nresp,
                   logVars, hookResult, inserted, emitted, bypassVars>>


(***************************************************************************)
(* _http_post_ua(ua, url), the first call of handle().                     *)
(***************************************************************************)
\* what the collector answers to the one requests.post of a call
PostOutcomes == {"200", "500", "raise"}

HttpPostUa(w, probe, post, writeOk) ==
    /\ worker[w].pc = "post"
    /\ LET cert == _analyze_cert_behavior(worker[w].url, probe[1], probe[2])
       IN  IF post = "200"
           THEN /\ worker' = [worker EXCEPT ![w].pc = "test", ![w].post = "ok",
                                            ![w].posts = @ + 1,
                                            ![w].probe = probe,
                                            ![w].heads = HeadRequests(worker[w].url, probe[1]),
                                            ![w].cert = cert]
                /\ UNCHANGED logVars
           ELSE /\ _safe_log(Payload("scanner_fail", worker[w].id, cert.behavior), writeOk)
                /\ worker' = [worker EXCEPT
                                ![w].pc = IF SafeLogEscapes(writeOk) THEN "crashed" ELSE "test",
                                ![w].post = "fail",
                                ![w].posts = @ + 1,
                                ![w].logs = @ + 1,
                                ![w].probe = probe,
                                ![w].heads = HeadRequests(worker[w].url, probe[1]),
                                ![w].cert = cert]
    /\ UNCHANGED <<connVars, loopVars, lock, UA_QUEUE, nreq, nresp, hookResult,
                   inserted, emitted, bypassVars>>

(***************************************************************************)
(* The dedup of handle(): line 305, then line 306.  Each of the two deque  *)
(* operations is atomic under the interpreter lock; a thread switch may    *)
(* fall between them.                                                      *)
(***************************************************************************)
DedupTest(w) ==
    /\ worker[w].pc = "test"
    /\ IF NotInQueue(FpOf(w), UA_QUEUE)
       THEN worker' = [worker EXCEPT ![w].pc = "append"]
       ELSE worker' = [worker EXCEPT ![w].pc = "done", ![w].emit = "suppressed"]
    /\ UNCHANGED <<connVars, loopVars, lock, UA_QUEUE, nreq, nresp, logVars,
                   hookResult, inserted, emitted, bypassVars>>

DedupAppend(w) ==
    /\ worker[w].pc = "append"
    /\ UA_QUEUE' = DequeAppend(UA_QUEUE, FpOf(w))
    /\ inserted' = Append(inserted, FpOf(w))
    /\ worker' = [worker EXCEPT ![w].pc = "emit"]
    /\ UNCHANGED <<connVars, loopVars, lock, nreq, nresp, logVars, hookResult,
                   emitted, bypassVars>>

(***************************************************************************)
(* SockClient.emit(event, data), called at line 309.                       *)
(***************************************************************************)
\* an emit that goes on to the send whatever self.connected says
EmitEnter_ignores_connected(w) ==
    /\ worker[w].pc = "emit"
    /\ lock = 0
    /\ worker' = [worker EXCEPT ![w].pc = "sending"]
    /\ lock' = w
    /\ UNCHANGED <<connVars, loopVars, UA_QUEUE, nreq, nresp, logVars, hookResult,
                   inserted, emitted, bypassVars>>

\* with self.lock: if self.connected: ... ; when the client is not
\* connected the with block ends at once
EmitEnter(w) ==
    /\ worker[w].pc = "emit"
    /\ lock = 0
    /\ IF connected
       THEN /\ worker' = [worker EXCEPT ![w].pc = "sending"]
            /\ lock' = w
       ELSE /\ worker' = [worker EXCEPT ![w].pc = "done", ![w].emit = "dropped"]
            /\ lock' = 0
    /\ UNCHANGED <<connVars, loopVars, UA_QUEUE, nreq, nresp, logVars, hookResult,
                   inserted, emitted, bypassVars>>

\* an emit whose except clause leaves the with block without releasing
EmitSend_keeps_lock(w, sendOk) ==
    /\ worker[w].pc = "sending"
    /\ sendOk => sioState = "up"
    /\ IF sendOk
       THEN /\ emitted' = Append(emitted, FpOf(w))
            /\ worker' = [worker EXCEPT ![w].pc = "done", ![w].emit = "sent"]
            /\ lock' = 0
            /\ UNCHANGED connected
       ELSE /\ connected' = FALSE
            /\ worker' = [worker EXCEPT ![w].pc = "done", ![w].emit = "raised"]
            /\ lock' = lock
            /\ UNCHANGED emitted
    /\ UNCHANGED <<sioState, reconnTries, reachable, loopVars, UA_QUEUE, nreq, nresp,
                   logVars, hookResult, inserted, bypassVars>>

\* an emit whose except clause only logs, without self.connected = False
EmitSend_keeps_connected(w, sendOk) ==
    /\ worker[w].pc = "sending"
    /\ sendOk => sioState = "up"
    /\ IF sendOk
       THEN /\ emitted' = Append(emitted, FpOf(w))
            /\ worker' = [worker EXCEPT ![w].pc = "done", ![w].emit = "sent"]
       ELSE /\ worker' = [worker EXCEPT ![w].pc = "done", ![w].emit = "raised"]
            /\ UNCHANGED emitted
    /\ UNCHANGED connected
    /\ lock' = 0
    /\ UNCHANGED <<sioState, reconnTries, reachable, loopVars, UA_QUEUE, nreq, nresp,
                   logVars, hookResult, inserted, bypassVars>>

\* self.sio.emit(...) returns (sendOk) or raises; a send on a transport that
\* is not up raises
EmitSend(w, sendOk) ==
    /\ worker[w].pc = "sending"
    /\ sendOk => sioState = "up"
    /\ IF sendOk
       THEN /\ emitted' = Append(emitted, FpOf(w))
            /\ worker' = [worker EXCEPT ![w].pc = "done", ![w].emit = "sent"]
            /\ UNCHANGED connected
       ELSE /\ connected' = FALSE
            /\ worker' = [worker EXCEPT ![w].pc = "done", ![w].emit = "raised"]
            /\ UNCHANGED emitted
    /\ lock' = 0
    /\ UNCHANGED <<sioState, reconnTries, reachable, loopVars, UA_QUEUE, nreq, nresp,
                   logVars, hookResult, inserted, bypassVars>>

(***************************************************************************)
(* The hooks.  They run once the module is imported, that is once          *)
(* SockClient() has returned.                                              *)
(***************************************************************************)
\* resp is the flow.response the hook was given: none for request()
HookResult(h, outcome) == [host |-> h, outcome |-> outcome, resp |-> NoResponse]

\* a hook that makes the relay POST itself before it starts the thread
request_posts_inline(w, flow) ==
    /\ Loaded
    /\ worker[w].pc \in {"idle", "done"}
    /\ nreq' = nreq + 1
    /\ hookResult' = HookResult(flow.host, "returned")
    /\ IF host_in_bypass(flow.host) \/ ExtractionRaises(flow)
       THEN UNCHANGED worker
       ELSE worker' = [worker EXCEPT ![w] =
                         [pc |-> "test", id |-> nreq + 1,
                          ua |-> UaOf(flow.ua), url |-> flow.url,
                          ip |-> ClientIpOf(flow), posts |-> 1, logs |-> 0,
                          post |-> "ok", emit |-> "none",
                          probe |-> NoProbe, heads |-> 0, cert |-> NoCert]]
    /\ UNCHANGED <<connVars, loopVars, lock, UA_QUEUE, nresp, logVars, inserted,
                   emitted, bypassVars>>

\* request(flow); w is the thread it starts
request(w, flow) ==
    /\ Loaded
    /\ worker[w].pc \in {"idle", "done"}
    /\ nreq' = nreq + 1
    /\ IF host_in_bypass(flow.host)
       THEN /\ hookResult' = HookResult(flow.host, "returned")
            /\ UNCHANGED <<worker, logVars>>
       ELSE IF ExtractionRaises(flow)
            THEN \E writeOk \in BOOLEAN :
                    /\ _safe_log(Payload("hook_error", nreq + 1, "none"), writeOk)
                    /\ hookResult' =
                         HookResult(flow.host,
                                    IF SafeLogEscapes(writeOk) THEN "raised" ELSE "returned")
                    /\ UNCHANGED worker
            ELSE /\ worker' = [worker EXCEPT ![w] =
                                 [pc |-> "post", id |-> nreq + 1,
                                  ua |-> UaOf(flow.ua), url |-> flow.url,
                                  ip |-> ClientIpOf(flow), posts |-> 0, logs |-> 0,
                                  post |-> "none", emit |-> "none",
                                  probe |-> NoProbe, heads |-> 0, cert |-> NoCert]]
                 /\ hookResult' = HookResult(flow.host, "returned")
                 /\ UNCHANGED logVars
    /\ UNCHANGED <<connVars, loopVars, lock, UA_QUEUE, nresp, inserted, emitted,
                   bypassVars>>

s_python == <<"p","y","t","h","o","n">>
s_curl   == <<"c","u","r","l">>
s_wget   == <<"w","g","e","t">>
s_scanner == <<"s","c","a","n","n","e","r">>
s_bot    == <<"b","o","t">>
s_crawler == <<"c","r","a","w","l","e","r">>
s_nginx  == <<"n","g","i","n","x">>
s_Python3 == <<"P","y","t","h","o","n","/","3">>

automation_indicators == {s_python, s_curl, s_wget, s_scanner, s_bot, s_crawler}

unusual_status == {418, 444, 999}

\* a check that looks at the status code only
ResponseSuspicious_status_only(resp) ==
    /\ resp.present
    /\ resp.status \in unusual_status

\* response_suspicious after lines 340-358
ResponseSuspicious(resp) ==
    /\ resp.present
    /\ \/ resp.status \in unusual_status
       \/ \E ind \in automation_indicators : Contains(Lower(resp.server), ind)

\* the responses the proxy hands to response() in Spec
MainResponses ==
    {NoResponse, Resp(200, s_nginx), Resp(418, s_nginx), Resp(200, s_Python3)}

\* response(flow)
response(flow, resp) ==
    /\ Loaded
    /\ nresp' = nresp + 1
    /\ hookResult' = [HookResult(flow.host, "returned") EXCEPT !.resp = resp]
    /\ IF ~host_in_bypass(flow.host) /\ ResponseSuspicious(resp)
       THEN \E writeOk \in BOOLEAN :
               _safe_log(Payload("suspicious_response", nresp + 1, "none"), writeOk)
       ELSE UNCHANGED logVars
    /\ UNCHANGED <<connVars, loopVars, lock, UA_QUEUE, worker, nreq, inserted, emitted,
                   bypassVars>>

(***************************************************************************)
(* Spec: the hooks, the worker threads, the client and the collector, all  *)
(* interleaved.                                                            *)
(***************************************************************************)
Next ==
    \/ \E ok \in BOOLEAN : ConnectAttempt(ok)
    \/ ConnectSleep
    \/ ConnectReturn
    \/ DisconnectEvent
    \/ \E ok \in BOOLEAN : LibraryReconnect(ok)
    \/ nreq + nresp < MaxHooks /\ \E flow \in MainFlows : request(nreq + 1, flow)
    \/ nreq + nresp < MaxHooks /\ \E flow \in MainFlows, resp \in MainResponses :
                                      response(flow, resp)
    \/ \E w \in Workers, probe \in MainProbes, post \in PostOutcomes, writeOk \in BOOLEAN :
          HttpPostUa(w, probe, post, writeOk)
    \/ \E w \in Workers : DedupTest(w)
    \/ \E w \in Workers : DedupAppend(w)
    \/ \E w \in Workers : EmitEnter(w)
    \/ \E w \in Workers, sendOk \in BOOLEAN : EmitSend(w, sendOk)

Spec == Init /\ [][Next]_vars


(***************************************************************************)
(* FairSpec: Spec with the collector's reachability as a state of the      *)
(* environment, which every connection attempt reads, and with the         *)
(* scheduling the interpreter gives: every thread that can take a step     *)
(* eventually takes it.  The proxy's calls of the hooks, the changes of    *)
(* reachability and the drops of the transport are not forced to happen.   *)
(***************************************************************************)
FairInit ==
    \E r \in BOOLEAN :
        /\ reachable = r
        /\ connected = FALSE
        /\ sioState = "down"
        /\ reconnTries = 0
        /\ connectPc = "loop"
        /\ n = 0
        /\ lock = 0
        /\ UA_QUEUE = <<>>
        /\ worker = [w \in Workers |-> IdleWorker]
        /\ nreq = 0
        /\ nresp = 0
        /\ logCalls = 0
        /\ logDir = {}
        /\ stderrLines = 0
        /\ hookResult = [host |-> <<>>, outcome |-> "returned", resp |-> NoResponse]
        /\ inserted = <<>>
        /\ emitted = <<>>
        /\ host = <<>>
        /\ bypassed = FALSE

ConnectStep == ConnectAttempt(reachable) \/ ConnectSleep \/ ConnectReturn

WorkerStep ==
    \/ \E w \in Workers, probe \in MainProbes, post \in PostOutcomes, writeOk \in BOOLEAN :
          HttpPostUa(w, probe, post, writeOk)
    \/ \E w \in Workers : DedupTest(w)
    \/ \E w \in Workers : DedupAppend(w)
    \/ \E w \in Workers : EmitEnter(w)
    \/ \E w \in Workers, sendOk \in BOOLEAN : EmitSend(w, sendOk)

FairNext ==
    \/ ConnectStep
    \/ ReachableChange
    \/ DisconnectEvent
    \/ LibraryReconnect(reachable)
    \/ nreq + nresp < MaxHooks /\ \E flow \in MainFlows : request(nreq + 1, flow)
    \/ nreq + nresp < MaxHooks /\ \E flow \in MainFlows, resp \in MainResponses :
                                      response(flow, resp)
    \/ WorkerStep

FairSpec ==
    /\ FairInit
    /\ [][FairNext]_vars
    /\ WF_vars(ConnectStep)
    /\ WF_vars(LibraryReconnect(reachable))
    /\ WF_vars(WorkerStep)

(***************************************************************************)
(* SeqSpec: the exchanges are handled one after the other, each handle()   *)
(* running to its end before the next request() is made, on a connected    *)
(* client and with a collector that answers 200.  The exchanges are one    *)
(* tracked exchange, which may come again at any time, and a stream of     *)
(* other exchanges that never repeat.                                      *)
(***************************************************************************)
SeqFlow(path) == MkFlow(s_evil_example, "curl/8.0", Url("https", path), "present", "10.0.0.1")

\* the fingerprint of the tracked exchange
TrackedFp == Fingerprint("curl/8.0", Url("https", 0), "10.0.0.1")

\* the state once the module is imported and the first sio.connect has succeeded
SeqInit ==
    /\ connected = TRUE
    /\ sioState = "up"
    /\ reconnTries = 0
    /\ reachable = TRUE
    /\ connectPc = "returned"
    /\ n = 0
    /\ lock = 0
    /\ UA_QUEUE = <<>>
    /\ worker = [w \in Workers |-> IdleWorker]
    /\ nreq = 0
    /\ nresp = 0
    /\ logCalls = 0
    /\ logDir = {}
    /\ stderrLines = 0
    /\ hookResult = [host |-> <<>>, outcome |-> "returned", resp |-> NoResponse]
    /\ inserted = <<>>
    /\ emitted = <<>>
    /\ host = <<>>
    /\ bypassed = FALSE

SeqRequest ==
    /\ nreq < SeqMaxRequests
    /\ nreq - Len(inserted) <= SeqMaxRepeats
    /\ \E path \in {0, Len(inserted) + 1} : request(1, SeqFlow(path))

SeqNext ==
    \/ SeqRequest
    \/ HttpPostUa(1, <<"200", "200">>, "200", TRUE)
    \/ DedupTest(1)
    \/ DedupAppend(1)
    \/ EmitEnter(1)
    \/ EmitSend(1, TRUE)

SeqSpec == SeqInit /\ [][SeqNext]_vars

(***************************************************************************)
(* BypassSpec: host_in_bypass applied to hosts drawn from HostInputs.      *)
(***************************************************************************)
s_xgoogle    == <<"x">> \o s_google_com
s_evilgoogle == <<"e","v","i","l">> \o s_google_com
s_Google_COM == <<"G","o","o","g","l","e",".","C","O","M">>
s_LocalHost  == <<"L","o","c","a","l","H","o","s","t">>
s_google_co  == <<"g","o","o","g","l","e",".","c","o">>
s_com        == <<"c","o","m">>

HostPrefixes ==
    {<<>>, <<"x">>, <<"w","w","w",".">>, <<"W","W","W",".">>, <<"e","v","i","l">>,
     <<"a",".","b",".">>, <<".">>, <<"-">>}

HostBases ==
    BYPASS_SUFFIXES \cup BYPASS_HOSTS
        \cup {s_Google_COM, s_LocalHost, s_example_com, s_google_co, s_com, <<>>}

HostTrails == {<<>>, <<".">>, <<".",".">>, <<".","x">>}

HostInputs == {p \o b \o t : p \in HostPrefixes, b \in HostBases, t \in HostTrails}

Classify(h) ==
    /\ host' = h
    /\ bypassed' = host_in_bypass(h)
    /\ UNCHANGED <<connVars, loopVars, lock, UA_QUEUE, worker, nreq, nresp, logVars,
                   hookResult, inserted, emitted>>

BypassNext == \E h \in HostInputs : Classify(h)

BypassSpec == Init /\ [][BypassNext]_vars

(***************************************************************************)
(* CertSpec: exchanges handled one after the other on a connected client,  *)
(* with every outcome of the two HEAD requests of the certificate probe.   *)
(***************************************************************************)
CertMaxRequests == 2

\* an https exchange and a plain http one
CertFlows ==
    {MkFlow(s_evil_example, "curl/8.0", Url("https", 0), "present", "10.0.0.1"),
     MkFlow(s_evil_example, "curl/8.0", Url("http", 1), "present", "10.0.0.1")}

AllProbes == FirstOutcomes \X SecondOutcomes

\* the two threads CertSpec runs
CertWorkers == {1, 2}

CertRequest ==
    /\ nreq < CertMaxRequests
    /\ \A w \in Workers : worker[w].pc \in {"idle", "done"}
    /\ \E w \in CertWorkers, flow \in CertFlows : request(w, flow)

CertNext ==
    \/ CertRequest
    \/ \E w \in CertWorkers, probe \in AllProbes : HttpPostUa(w, probe, "200", TRUE)
    \/ \E w \in CertWorkers : DedupTest(w)
    \/ \E w \in CertWorkers : DedupAppend(w)
    \/ \E w \in CertWorkers : EmitEnter(w)
    \/ \E w \in CertWorkers : EmitSend(w, TRUE)

CertSpec == SeqInit /\ [][CertNext]_vars


(***************************************************************************)
(* Properties.                                                             *)
(***************************************************************************)
\* worker w has found its fingerprint absent at line 305
Passed(w) ==
    \/ worker[w].pc \in {"append", "emit", "sending"}
    \/ worker[w].emit \in {"sent", "dropped", "raised"}

\* the number of times x occurs in the sequence s
Count(s, x) == Cardinality({i \in 1..Len(s) : s[i] = x})

\* the place of the last x in the sequence s, 0 when there is none
LastIndex(s, x) ==
    IF \E i \in 1..Len(s) : s[i] = x
    THEN CHOOSE i \in 1..Len(s) : s[i] = x /\ \A j \in (i + 1)..Len(s) : s[j] # x
    ELSE 0

\* C1: of the workers that carry the same fingerprint, at most one finds it
\* absent from UA_QUEUE (and so appends it and calls sock.emit).  Spec makes
\* fewer than UA_QUEUE_MAXLEN requests, so nothing is ever evicted and a
\* second worker can only pass by running between the test and the append of
\* the first.
C1_DedupAtomic ==
    \A w1 \in Workers, w2 \in Workers :
        (w1 # w2 /\ Passed(w1) /\ Passed(w2)) => FpOf(w1) # FpOf(w2)

\* the tracked exchange as SeqSpec's worker sees it just after line 305
SeqLast == LastIndex(inserted, FpOf(1))
SeqOthers == Len(inserted) - SeqLast
SeqFoundUnseen == worker[1].pc = "append"
SeqFoundSeen == worker[1].pc = "done" /\ worker[1].emit = "suppressed"

\* C2: handled one after the other on a connected client, an exchange whose
\* fingerprint was never appended is found unseen; an exchange whose
\* fingerprint was appended with fewer than UA_QUEUE_MAXLEN other appends
\* since is found seen; and once its handle() has ended, the events emitted
\* for the exchange are as many as the appends of its fingerprint, so an
\* exchange and its repeat yield one 'uaUpdate' event, not two.
C2_SequentialDedup ==
    /\ (SeqFoundUnseen \/ SeqFoundSeen) =>
          /\ SeqLast = 0 => SeqFoundUnseen
          /\ (SeqLast > 0 /\ SeqOthers < UA_QUEUE_MAXLEN) => SeqFoundSeen
    /\ worker[1].pc = "done" =>
          Count(emitted, FpOf(1)) = Count(inserted, FpOf(1))
    /\ (SeqFoundSeen /\ Count(inserted, FpOf(1)) = 1) => Count(emitted, FpOf(1)) = 1

\* C2 witness: the tracked exchange comes again after UA_QUEUE_MAXLEN - 1
\* other exchanges and is suppressed: one event for the two
C2_Witness ==
    /\ SeqFoundSeen
    /\ FpOf(1) = TrackedFp
    /\ SeqLast = 1
    /\ SeqOthers = UA_QUEUE_MAXLEN - 1
    /\ Count(emitted, TrackedFp) = 1

\* the last k items of the sequence s
LastItems(s, k) == IF Len(s) <= k THEN s ELSE SubSeq(s, Len(s) - k + 1, Len(s))

\* C3: UA_QUEUE never holds more than UA_QUEUE_MAXLEN fingerprints; it holds
\* exactly the last UA_QUEUE_MAXLEN fingerprints appended, in order (an
\* append to a full deque evicts the oldest one and nothing else); once
\* UA_QUEUE_MAXLEN + 1 distinct fingerprints are appended the first is no
\* longer a member; and a repeat of a fingerprint with UA_QUEUE_MAXLEN or
\* more appends since its own is found unseen.
C3_BoundedFifo ==
    /\ Len(UA_QUEUE) <= UA_QUEUE_MAXLEN
    /\ UA_QUEUE = LastItems(inserted, UA_QUEUE_MAXLEN)
    /\ (/\ Len(inserted) = UA_QUEUE_MAXLEN + 1
        /\ Cardinality(Range(inserted)) = Len(inserted)) =>
          inserted[1] \notin Range(UA_QUEUE)
    /\ ((SeqFoundUnseen \/ SeqFoundSeen) /\ SeqLast > 0 /\ SeqOthers >= UA_QUEUE_MAXLEN) =>
          SeqFoundUnseen

\* C3 witness: the first fingerprint is evicted by the append of the
\* UA_QUEUE_MAXLEN others that follow it, comes again and is appended again
C3_Witness ==
    /\ Len(inserted) = UA_QUEUE_MAXLEN + 2
    /\ inserted[Len(inserted)] = inserted[1]
    /\ Len(UA_QUEUE) = UA_QUEUE_MAXLEN
    /\ UA_QUEUE[1] = inserted[3]

\* C4: a worker that has ended after a failed delivery step has handed a
\* fallback record to _safe_log for that step: one for a failed relay POST,
\* and one more for an emit that raised or was dropped by a client that is
\* not connected.
C4_NoSilentLoss ==
    \A w \in Workers :
        worker[w].pc = "done" =>
            /\ worker[w].post = "fail" => worker[w].logs >= 1
            /\ worker[w].emit \in {"raised", "dropped"} =>
                  worker[w].logs >= (IF worker[w].post = "fail" THEN 2 ELSE 1)

\* the scanner_fail record files of worker w in LOG_DIR
ScannerFailFiles(w) ==
    {r \in logDir : r.type = "scanner_fail" /\ r.req = worker[w].id}

\* C5: a worker that has left _http_post_ua has made exactly one POST and no
\* exception has escaped; when the POST failed (non-200 or raised) it has
\* handed exactly one record, of type scanner_fail, to _safe_log, which
\* leaves at most one such file; when the POST was answered 200 it has
\* handed none and there is no such file.
C5_RelayFailure ==
    \A w \in Workers :
        /\ worker[w].pc # "crashed"
        /\ worker[w].post = "none" => worker[w].posts = 0 /\ worker[w].logs = 0
        /\ worker[w].post = "fail" =>
              /\ worker[w].posts = 1
              /\ worker[w].logs = 1
              /\ Cardinality(ScannerFailFiles(w)) <= 1
        /\ worker[w].post = "ok" =>
              /\ worker[w].posts = 1
              /\ worker[w].logs = 0
              /\ ScannerFailFiles(w) = {}

\* C5 witness: a POST has failed, its record is written, the worker goes on
C5_Witness ==
    \E w \in Workers :
        /\ worker[w].post = "fail"
        /\ worker[w].pc = "test"
        /\ Cardinality(ScannerFailFiles(w)) = 1

\* C6: whatever fails inside a hook (the extraction of the client address,
\* the write of the fallback file), the last hook called has returned
\* normally to the proxy, no worker thread has ended on an exception, and
\* each failure handed to _safe_log has become exactly one file in LOG_DIR
\* or one EMERG-LOG-FAIL line on stderr.
C6_NoErrorToProxy ==
    /\ hookResult.outcome = "returned"
    /\ \A w \in Workers : worker[w].pc # "crashed"
    /\ logCalls = Cardinality(logDir) + stderrLines

\* C6 witness: request() has caught the exception of the extraction, the
\* write of its hook_error record has failed too, and the hook has returned
C6_Witness ==
    /\ nreq = 1
    /\ nresp = 0
    /\ hookResult = HookResult(s_evil_example, "returned")
    /\ worker = [w \in Workers |-> IdleWorker]
    /\ logCalls = 1
    /\ logDir = {}
    /\ stderrLines = 1

\* the host as the bypass lists read it: lower-cased, without the dots it
\* ends with
HostKey(h) ==
    LET l == Lower(h)
        k == CHOOSE i \in 0..Len(l) :
                 /\ i = 0 \/ l[i] # "."
                 /\ \A j \in (i + 1)..Len(l) : l[j] = "."
    IN  SubSeq(l, 1, k)

\* the host is listed: it is one of BYPASS_HOSTS, or one of BYPASS_SUFFIXES,
\* or anything, a dot, and one of BYPASS_SUFFIXES
BypassListed(h) ==
    LET key == HostKey(h)
    IN  \/ key \in BYPASS_HOSTS
        \/ key \in BYPASS_SUFFIXES
        \/ \E s \in BYPASS_SUFFIXES : \E i \in 1..Len(key) :
              /\ key[i] = "."
              /\ SubSeq(key, i + 1, Len(key)) = s

\* a step that is a call of request() or of response()
HookCall == nreq' # nreq \/ nresp' # nresp

\* C7: a call of request() or of response() for a host on the bypass lists
\* spawns no worker (so no probe, no relay POST, no append, no emit), makes
\* no call of _safe_log and writes nothing, and leaves UA_QUEUE and the
\* state of the connection as they were.
C7_BypassGate ==
    [][(HookCall /\ BypassListed(hookResult'.host)) =>
          UNCHANGED <<worker, UA_QUEUE, inserted, emitted, connected, sioState,
                      reconnTries, lock, logCalls, logDir, stderrLines>>]_vars

\* C7 witness: request() and response() have both been called for
\* www.google.com, and nothing has been spawned or logged
C7_Witness ==
    /\ nreq = 1
    /\ nresp = 1
    /\ hookResult.host = s_www_google
    /\ BypassListed(hookResult.host)
    /\ worker = [w \in Workers |-> IdleWorker]
    /\ logCalls = 0
    /\ UA_QUEUE = <<>>

\* C8: host_in_bypass(h) is true exactly when h, lower-cased and without
\* the dots it ends with, is one of BYPASS_HOSTS, is one of BYPASS_SUFFIXES,
\* or ends with a dot followed by one of BYPASS_SUFFIXES; it gives the same
\* answer for h and for h lower-cased; xgoogle.com and evilgoogle.com are not
\* bypassed, www.google.com is.
C8_BypassClassification ==
    /\ bypassed = BypassListed(host)
    /\ bypassed = host_in_bypass(Lower(host))
    /\ host \in {s_xgoogle, s_evilgoogle} => ~bypassed
    /\ host = s_www_google => bypassed

\* C8 witness: xgoogle.com has been classified, and is not bypassed
C8_Witness ==
    /\ host = s_xgoogle
    /\ ~bypassed
    /\ ~host_in_bypass(s_evilgoogle)
    /\ host_in_bypass(s_www_google)
    /\ host_in_bypass(<<"W","W","W",".">> \o s_Google_COM \o <<".">>)

\* the connect attempts _connect has made so far
ConnectAttempts == IF connectPc = "sleep" THEN n + 1 ELSE n

\* a step that is one call of self.sio.connect (line 238)
AttemptStep ==
    /\ connectPc = "loop"
    /\ connectPc' = "sleep" \/ (connectPc' = "returned" /\ connected')

\* C9: _connect makes at most CONNECT_TRIES connect attempts and then
\* returns; it makes an attempt only while the client is not connected; it
\* gives up only after CONNECT_TRIES failed attempts, and then the client is
\* not connected when it returns.
C9_BoundedConnect ==
    /\ [](ConnectAttempts <= CONNECT_TRIES)
    /\ [][AttemptStep => (~connected /\ n < CONNECT_TRIES)]_vars
    /\ [][connectPc' = "exhausted" /\ connectPc # "exhausted" =>
             (n = CONNECT_TRIES /\ ~connected' /\ sioState' = "down")]_vars
    /\ <>Loaded

\* C9 witness: three attempts have failed and _connect has given up
C9_Witness ==
    /\ connectPc = "exhausted"
    /\ ~connected
    /\ nreq = 0
    /\ nresp = 0

\* C10: if the collector becomes reachable and stays reachable, the client
\* is connected again and again: from wherever it is left disconnected
\* (exhaustion in _connect, a disconnect event, a send failure in emit) it
\* returns to connected.
C10_ReconnectLiveness == (<>[]reachable) => ([]<>connected)

\* a step in which worker w enters sock.emit and finds self.connected False
EmitWhileNotConnected(w) ==
    /\ worker[w].pc = "emit"
    /\ worker'[w].pc # "emit"
    /\ ~connected

\* C11: when self.connected is False as emit runs, nothing is sent on the
\* transport, the state of the connection is left as it was, the lock is
\* free again, and the call returns to the worker, which ends normally.
C11_EmitNotConnectedNoOp ==
    [][\A w \in Workers : EmitWhileNotConnected(w) =>
          /\ emitted' = emitted
          /\ UNCHANGED <<connected, sioState, reconnTries>>
          /\ lock' = 0
          /\ worker'[w].pc = "done"
          /\ worker'[w].emit = "dropped"]_vars

\* C11 witness: after the exhaustion of _connect a worker has called emit,
\* which has sent nothing
C11_Witness ==
    /\ connectPc = "exhausted"
    /\ ~connected
    /\ emitted = <<>>
    /\ \E w \in Workers : worker[w].pc = "done" /\ worker[w].emit = "dropped"

\* the workers that are inside self.sio.emit
Sending == {w \in Workers : worker[w].pc = "sending"}

\* C12: at most one worker is inside the transport send at any time; the
\* worker inside it is the holder of SockClient.lock; the lock is held by
\* nobody else, so it is free whenever no send is running, whichever way
\* the last emit ended; and every worker that has reached emit leaves it.
C12_EmitSerialized ==
    /\ [](Cardinality(Sending) <= 1)
    /\ [](\A w \in Workers : worker[w].pc = "sending" => lock = w)
    /\ [](lock # 0 => worker[lock].pc = "sending")
    /\ \A w \in Workers : (worker[w].pc = "emit") ~> (worker[w].pc = "done")

\* C12 witness: one worker is sending and holds the lock while another one
\* waits for it at the entry of emit
C12_Witness ==
    \E w1 \in Workers, w2 \in Workers :
        /\ w1 # w2
        /\ lock = w1
        /\ worker[w1].pc = "sending"
        /\ worker[w2].pc = "emit"

\* a step in which the send of worker w ends without an event handed over
SendRaises(w) ==
    /\ worker[w].pc = "sending"
    /\ worker'[w].pc # "sending"
    /\ emitted' = emitted

\* C13: when the send inside emit raises, self.connected becomes False and
\* emit returns normally to the worker; from then on a worker enters the
\* send only once self.connected is True again, and only a connect event
\* of the transport makes it True.
C13_EmitFailureTransition ==
    /\ [][\A w \in Workers : SendRaises(w) =>
             /\ ~connected'
             /\ worker'[w].pc = "done"
             /\ worker'[w].emit = "raised"
             /\ lock' = 0]_vars
    /\ [][\A w \in Workers :
             (worker[w].pc # "sending" /\ worker'[w].pc = "sending") => connected]_vars
    /\ [][(~connected /\ connected') => (sioState # "up" /\ sioState' = "up")]_vars

\* C13 witness: a send has raised on a transport that is still up; the
\* emit of another worker after it has been a no-op
C13_Witness ==
    \E w1 \in Workers, w2 \in Workers :
        /\ worker[w1].emit = "raised"
        /\ worker[w2].emit = "dropped"
        /\ sioState = "up"
        /\ ~connected

\* C15: every call of _safe_log has recorded its payload, as a file in
\* LOG_DIR or, when that write failed, as one line of the emergency file,
\* and every failed write has put one diagnostic line on stderr; the call
\* has not raised.
C15_EmergencyTier ==
    /\ logCalls = Cardinality(logDir) + Len(emergencyLog)
    /\ stderrLines = Len(emergencyLog)
    /\ hookResult.outcome = "returned"

\* the classifications a probe may end with; the last one is unknown_error
\* with the name of the exception type that the code puts behind it
CertBehaviors ==
    {"validates_certs", "ignores_certs", "connection_failed", "connection_timeout",
     "cert_expired", "cert_self_signed", "cert_hostname_mismatch",
     "cert_validation_failed", "non_https", "unknown_error_ReadTimeout"}

\* the workers whose call of _analyze_cert_behavior has returned
Probed == {w \in Workers : worker[w].cert # NoCert}

\* C14: whatever the two HEAD requests answer, _analyze_cert_behavior
\* returns one classification of the enumerated set with a risk score that
\* is not negative, and two calls that return the same classification
\* return the same score.
C14_CertClassification ==
    /\ \A w \in Probed :
          /\ worker[w].cert.behavior \in CertBehaviors
          /\ worker[w].cert.risk >= 0
    /\ \A w1 \in Probed, w2 \in Probed :
          worker[w1].cert.behavior = worker[w2].cert.behavior =>
              worker[w1].cert.risk = worker[w2].cert.risk

\* the data handed to sock.emit at lines 309-320, as far as the model
\* tells its fields apart: ua, url and src_ip (ts, tls_info, tls_suspicious,
\* request_method, content_type, host and scheme are the others)
UaUpdateEvent(w) ==
    [ua |-> worker[w].ua, url |-> worker[w].url, src_ip |-> worker[w].ip]

\* C16: the event a worker has sent carries the classification and the risk
\* score that the probe of the same worker returned.
C16_EventCarriesProbe ==
    \A w \in Workers :
        worker[w].emit = "sent" =>
            /\ "certBehavior" \in DOMAIN UaUpdateEvent(w)
            /\ "certRiskBonus" \in DOMAIN UaUpdateEvent(w)
            /\ UaUpdateEvent(w).certBehavior = worker[w].cert.behavior
            /\ UaUpdateEvent(w).certRiskBonus = worker[w].cert.risk

\* C19: when the verifying request fails with an SSLError, whatever its
\* cause, and the request with verify=False is answered 200, the result is
\* (ignores_certs, 30); the request with verify=False is made only after
\* an SSLError of the verifying request: never for a URL that is not https
\* (no request at all is made then) and never after a verifying request
\* that was answered or that failed otherwise.
C19_IgnoresCertsDominates ==
    \A w \in Probed :
        /\ (/\ IsHttps(worker[w].url)
            /\ worker[w].probe[1] \in SslOutcomes
            /\ worker[w].probe[2] = "200") => worker[w].cert = Cert("ignores_certs", 30)
        /\ worker[w].heads = 2 =>
              IsHttps(worker[w].url) /\ worker[w].probe[1] \in SslOutcomes
        /\ ~IsHttps(worker[w].url) => worker[w].heads = 0
        /\ (IsHttps(worker[w].url) /\ worker[w].probe[1] \notin SslOutcomes) =>
              worker[w].heads = 1

\* C19 witness: an expired certificate accepted with verify=False, and an
\* http exchange that was not probed at all
C19_Witness ==
    \E w1 \in Workers, w2 \in Workers :
        /\ worker[w1].probe = <<"ssl_expired", "200">>
        /\ worker[w1].cert.behavior = "ignores_certs"
        /\ worker[w1].heads = 2
        /\ worker[w2].cert.behavior = "non_https"
        /\ worker[w2].heads = 0

\* C20: a worker suppresses its event only if an event with the same
\* fingerprint has been handed to the transport, or is still on its way
\* there in a worker that has passed the test: a fingerprint is never left
\* in UA_QUEUE when its event was dropped or its send failed.
C20_SuppressionImpliesSend ==
    \A w \in Workers :
        worker[w].emit = "suppressed" =>
            \/ FpOf(w) \in Range(emitted)
            \/ \E v \in Workers :
                  /\ FpOf(v) = FpOf(w)
                  /\ worker[v].pc \in {"append", "emit", "sending"}

\* a step that is a call of request()
RequestCall == nreq' # nreq

\* the workers a step starts or changes
Touched == {w \in Workers : worker'[w] # worker[w]}

HasSubstring(s, t) ==
    \E i \in 0..(Len(s) - Len(t)) : SubSeq(s, i + 1, i + Len(t)) = t

\* an automation indicator fires on the response
IndicatorFires(resp) ==
    /\ resp.present
    /\ \/ resp.status \in {418, 444, 999}
       \/ \E ind \in {s_python, s_curl, s_wget, s_scanner, s_bot, s_crawler} :
             HasSubstring(Lower(resp.server), ind)

\* a step that is a call of response()
ResponseCall == nresp' # nresp

\* C18: a call of response() for a host that is not bypassed makes exactly
\* one call of _safe_log, with a suspicious_response record, when an
\* indicator fires on the response, and none when no indicator fires or
\* there is no response; either way it starts no thread, makes no POST,
\* sends no event and leaves UA_QUEUE alone.
C18_ResponsePath ==
    [][(ResponseCall /\ ~BypassListed(hookResult'.host)) =>
          /\ hookResult'.outcome = "returned"
          /\ logCalls' = logCalls + (IF IndicatorFires(hookResult'.resp) THEN 1 ELSE 0)
          /\ Cardinality(logDir') + stderrLines' = Cardinality(logDir) + stderrLines
                 + (IF IndicatorFires(hookResult'.resp) THEN 1 ELSE 0)
          /\ \A r \in logDir' \ logDir : r.type = "suspicious_response"
          /\ UNCHANGED <<worker, UA_QUEUE, inserted, emitted, connected, sioState,
                         reconnTries, lock>>
      ]_vars

\* C18 witness: a response on which an indicator fires has been recorded,
\* the response with nothing unusual that came after it has not
C18_Witness ==
    /\ nresp = 2
    /\ nreq = 0
    /\ hookResult.resp = Resp(200, s_nginx)
    /\ ~BypassListed(hookResult.host)
    /\ logCalls = 1
    /\ \E r \in logDir : r.type = "suspicious_response" /\ r.req = 1

====
